---- MODULE Spec2Model ----
(***************************************************************************)
(* State-machine model of gnina/training.py: the function training() and   *)
(* the step functions and engine factories it wires together.              *)
(*                                                                         *)
(* One behaviour is one call of training(args).  The trainer Engine, the   *)
(* evaluator Engine, the metric accumulators, the plateau scheduler, the   *)
(* Checkpoint handler and the Timer are objects of ignite / torch; they    *)
(* are modelled by the behaviour training.py relies on at the place where  *)
(* training.py constructs or attaches them.                                *)
(*                                                                         *)
(* Numbers: learning rates, losses and model parameters are integers in    *)
(* fixed-point units; the tensors of a batch are abstracted to one integer *)
(* per field.                                                              *)
(***************************************************************************)
EXTENDS Integers, Sequences, FiniteSets

VARIABLES
    args,          \* the parsed command line (options(), read-only afterwards)
    out_dir,       \* files present in args.out_dir
    train_loader,  \* the batches the training GriddedExamplesLoader yields
    test_loader,   \* [dims, batches] of the test loader (used iff args.testfile)
    pc,            \* position in training()
    raised,        \* the exception that ended the run ("None": none)
    model,         \* the scripted model: parameters, gradient, mode, variant
    optimizer,     \* optim.SGD: param_groups and update count
    affinity_loss, \* "None" or "AffinityLoss"
    trainer,       \* trainer Engine: state, process function, last event
    evaluator,     \* evaluator Engine: state, process function, last event
    allmetrics,    \* metric accumulators attached to the evaluator
    torch_scheduler, \* ReduceLROnPlateau state
    elapsed_time,  \* timing.Timer
    checkpoint,    \* ignite Checkpoint handler: its list of saved items
    handlers,      \* trainer's EPOCH_COMPLETED handlers, in registration order
    hpos,          \* index in handlers of the handler being run (0: none)
    hpc,           \* position inside that handler
    metrics_train, \* defaultdict(list) of the train history
    metrics_test,  \* defaultdict(list) of the test history
    forward_ctx,   \* conditions of the most recent model(grids) call
    monitored      \* the local `loss` of log_training_results, once bound

vars == <<args, out_dir, train_loader, test_loader, pc, raised, model,
          optimizer,
          affinity_loss, trainer, evaluator, allmetrics, torch_scheduler,
          elapsed_time, checkpoint, handlers, hpos, hpc, metrics_train,
          metrics_test, forward_ctx, monitored>>

(***************************************************************************)
(* Bounds of the model.                                                    *)
(***************************************************************************)
MaxEpochs == 3        \* args.iterations ranges over 1..MaxEpochs
MaxEvery == 2         \* args.test_every, args.checkpoint_every in 1..MaxEvery
MaxKeep == 2          \* args.num_checkpoints in 1..MaxKeep
NumBatches == 2       \* batches a loader yields per pass
MaxPatience == 1      \* args.lr_patience in 0..MaxPatience
MaxGroups == 2        \* parameter groups of the optimizer under GroupsSpec

(***************************************************************************)
(* Helpers.                                                                *)
(***************************************************************************)
Max(a, b) == IF a >= b THEN a ELSE b

RECURSIVE SumSeq(_)
SumSeq(s) == IF s = <<>> THEN 0 ELSE Head(s) + SumSeq(Tail(s))

Last(s) == s[Len(s)]

(***************************************************************************)
(* Inputs.                                                                 *)
(***************************************************************************)
\* The weights after model.apply(weights_and_biases_init), as one integer.
InitWeights == 8

\* A batch: (grids, labels) or (grids, labels, affinities).  `descent` is the
\* parameter change that backpropagation on this batch induces.
Batch(grids, descent, affinity) ==
    IF affinity
    THEN [grids |-> grids, labels |-> 0, affinities |-> 1, descent |-> descent]
    ELSE [grids |-> grids, labels |-> 0, descent |-> descent]

\* Training sets: the loss falls, stays or rises by one unit per epoch, or
\* the first batch yields a gradient whose norm (12) exceeds the clip
\* threshold.
TrainLoaders(affinity) ==
    { [i \in 1..NumBatches |->
          Batch(0, IF i = 1 THEN d ELSE 0, affinity)] : d \in {-1, 0, 1, 12} }

\* The test set holds other examples than the training set.
TestBatches(affinity) == [i \in 1..NumBatches |-> Batch(2 * i, 0, affinity)]

\* A checkpoint artifact of out_dir; `run` tells a stale file of a prior run
\* from one this run wrote.
CheckpointFile(epoch, run) == [ext |-> "pt", epoch |-> epoch, run |-> run]

ArgsSet ==
    [iterations : 1..MaxEpochs,
     test_every : 1..MaxEvery,
     checkpoint_every : 1..MaxEvery,
     num_checkpoints : 1..MaxKeep,
     affinity_pos : BOOLEAN,       \* TRUE: args.affinity_pos is not None
     testfile : BOOLEAN,           \* TRUE: args.testfile is not None
     lr_dynamic : BOOLEAN,
     lr_patience : 0..MaxPatience,
     lr_reduce : {[num |-> 1, den |-> 2]},
     lr_min : {1, 2},
     base_lr : {1, 4},
     clip_gradients : {10}]

(***************************************************************************)
(* Loss modules and the model's forward call.                              *)
(***************************************************************************)
Abs(x) == IF x >= 0 THEN x ELSE -x

\* nn.NLLLoss on (pose_log, labels), as a distance.
pose_loss(pose_log, labels) == Abs(pose_log - labels)

\* AffinityLoss on (affinities_pred, affinities), as a distance.
AffinityLoss(affinities_pred, affinities) == Abs(affinities_pred - affinities)

\* model(grids): one tensor for the pose-only variant, two for the dual one.
Forward(m, grids) ==
    IF m.affinity
    THEN [pose_log |-> m.params + grids, affinities_pred |-> m.params + grids]
    ELSE [pose_log |-> m.params + grids]

\* nn.utils.clip_grad_norm_: the gradient scaled down to norm clip_gradients.
ClipGradNorm(grad, clip_gradients) ==
    IF Abs(grad) <= clip_gradients THEN grad
    ELSE IF grad > 0 THEN clip_gradients ELSE -clip_gradients

\* optimizer.step(): the one place that writes the parameters.
OptimizerStep(m, o) ==
    [model |-> [m EXCEPT !.params = @ + m.grad],
     optimizer |-> [o EXCEPT !.steps = @ + 1]]

(***************************************************************************)
(* Training steps.  Each returns the model and optimizer it leaves, the    *)
(* loss it returns, the conditions of its forward call, and whether the    *)
(* batch or the model output could not be unpacked (an exception).         *)
(***************************************************************************)
\* Mutant of train_step_pose: optimizer.step() is called before the
\* gradient is clipped.
train_step_pose_StepBeforeClip(batch, m, o, clip_gradients) ==
    LET m1 == [m EXCEPT !.training = TRUE]
        m2 == [m1 EXCEPT !.grad = 0]
        out == Forward(m2, batch.grids)
        ok == DOMAIN batch = {"grids", "labels", "descent"}
              /\ DOMAIN out = {"pose_log"}
        loss == pose_loss(out.pose_log, batch.labels)
        m3 == [m2 EXCEPT !.grad = @ + batch.descent]
        upd == OptimizerStep(m3, o)
        m4 == [upd.model EXCEPT !.grad = ClipGradNorm(@, clip_gradients)]
    IN  [raised |-> ~ok,
         model |-> IF ok THEN m4 ELSE m2,
         optimizer |-> IF ok THEN upd.optimizer ELSE o,
         output |-> IF ok THEN loss ELSE 0,
         ctx |-> [by |-> "train", training |-> m2.training, grad |-> TRUE,
                  zero_grads |-> (m2.grad = 0)]]

\* Mutant of train_step_pose: model.train() is left out.
train_step_pose_NoTrainCall(batch, m, o, clip_gradients) ==
    LET m2 == [m EXCEPT !.grad = 0]
        out == Forward(m2, batch.grids)
        ok == DOMAIN batch = {"grids", "labels", "descent"}
              /\ DOMAIN out = {"pose_log"}
        loss == pose_loss(out.pose_log, batch.labels)
        m3 == [m2 EXCEPT !.grad = @ + batch.descent]
        m4 == [m3 EXCEPT !.grad = ClipGradNorm(@, clip_gradients)]
        upd == OptimizerStep(m4, o)
    IN  [raised |-> ~ok,
         model |-> IF ok THEN upd.model ELSE m2,
         optimizer |-> IF ok THEN upd.optimizer ELSE o,
         output |-> IF ok THEN loss ELSE 0,
         ctx |-> [by |-> "train", training |-> m2.training, grad |-> TRUE,
                  zero_grads |-> (m2.grad = 0)]]

train_step_pose(batch, m, o, clip_gradients) ==
    LET m1 == [m EXCEPT !.training = TRUE]                 \* model.train()
        m2 == [m1 EXCEPT !.grad = 0]                       \* zero_grad()
        out == Forward(m2, batch.grids)                    \* model(grids)
        ok == DOMAIN batch = {"grids", "labels", "descent"}
              /\ DOMAIN out = {"pose_log"}
        loss == pose_loss(out.pose_log, batch.labels)
        m3 == [m2 EXCEPT !.grad = @ + batch.descent]       \* loss.backward()
        m4 == [m3 EXCEPT !.grad = ClipGradNorm(@, clip_gradients)]
        upd == OptimizerStep(m4, o)                        \* optimizer.step()
    IN  [raised |-> ~ok,
         model |-> IF ok THEN upd.model ELSE m2,
         optimizer |-> IF ok THEN upd.optimizer ELSE o,
         output |-> IF ok THEN loss ELSE 0,
         ctx |-> [by |-> "train", training |-> m2.training, grad |-> TRUE,
                  zero_grads |-> (m2.grad = 0)]]

train_step_pose_and_affinity(batch, m, o, clip_gradients) ==
    LET m1 == [m EXCEPT !.training = TRUE]                 \* model.train()
        m2 == [m1 EXCEPT !.grad = 0]                       \* zero_grad()
        out == Forward(m2, batch.grids)                    \* model(grids)
        ok == DOMAIN batch = {"grids", "labels", "affinities", "descent"}
              /\ DOMAIN out = {"pose_log", "affinities_pred"}
        loss == pose_loss(out.pose_log, batch.labels)
                + AffinityLoss(out.affinities_pred, batch.affinities)
        m3 == [m2 EXCEPT !.grad = @ + batch.descent]       \* loss.backward()
        m4 == [m3 EXCEPT !.grad = ClipGradNorm(@, clip_gradients)]
        upd == OptimizerStep(m4, o)                        \* optimizer.step()
    IN  [raised |-> ~ok,
         model |-> IF ok THEN upd.model ELSE m2,
         optimizer |-> IF ok THEN upd.optimizer ELSE o,
         output |-> IF ok THEN loss ELSE 0,
         ctx |-> [by |-> "train", training |-> m2.training, grad |-> TRUE,
                  zero_grads |-> (m2.grad = 0)]]

\* Mutant of setup_trainer: the test on affinity_loss is inverted.
setup_trainer_Inverted(aff_loss) ==
    IF aff_loss = "None"
    THEN "_train_step_pose_and_affinity"
    ELSE "_train_step_pose"

\* The process function _setup_trainer gives the trainer Engine.
setup_trainer(aff_loss) ==
    IF aff_loss # "None"
    THEN "_train_step_pose_and_affinity"
    ELSE "_train_step_pose"

\* trainer._process_function(trainer, batch)
TrainerProcess(fn, batch, m, o, clip_gradients) ==
    IF fn = "_train_step_pose_and_affinity"
    THEN train_step_pose_and_affinity(batch, m, o, clip_gradients)
    ELSE train_step_pose(batch, m, o, clip_gradients)

(***************************************************************************)
(* Evaluation steps.                                                       *)
(***************************************************************************)
evaluation_step_pose_and_affinity(batch, m) ==
    LET m1 == [m EXCEPT !.training = FALSE]                \* model.eval()
        out == Forward(m1, batch.grids)                    \* under no_grad()
        ok == DOMAIN batch = {"grids", "labels", "affinities", "descent"}
              /\ DOMAIN out = {"pose_log", "affinities_pred"}
    IN  [raised |-> ~ok,
         model |-> m1,
         output |-> IF ok
                    THEN [pose_log |-> out.pose_log,
                          affinities_pred |-> out.affinities_pred,
                          labels |-> batch.labels,
                          affinities |-> batch.affinities]
                    ELSE [pose_log |-> 0, labels |-> 0],
         ctx |-> [by |-> "eval", training |-> m1.training, grad |-> FALSE,
                  zero_grads |-> (m1.grad = 0)]]

\* Mutant of evaluation_step_pose: the record is built as in the dual-task
\* step, with affinity fields the pose-only mode does not have.
evaluation_step_pose_AffinityFields(batch, m) ==
    LET m1 == [m EXCEPT !.training = FALSE]
        out == Forward(m1, batch.grids)
    IN  [raised |-> FALSE,
         model |-> m1,
         output |-> [pose_log |-> out.pose_log, affinities_pred |-> 0,
                     labels |-> batch.labels, affinities |-> 0],
         ctx |-> [by |-> "eval", training |-> m1.training, grad |-> FALSE,
                  zero_grads |-> (m1.grad = 0)]]

\* Mutant of evaluation_step_pose: model.eval() and no_grad() are left out.
evaluation_step_pose_TrainMode(batch, m) ==
    LET out == Forward(m, batch.grids)
        ok == DOMAIN batch = {"grids", "labels", "descent"}
              /\ DOMAIN out = {"pose_log"}
    IN  [raised |-> ~ok,
         model |-> m,
         output |-> IF ok
                    THEN [pose_log |-> out.pose_log, labels |-> batch.labels]
                    ELSE [pose_log |-> 0, labels |-> 0],
         ctx |-> [by |-> "eval", training |-> m.training, grad |-> TRUE,
                  zero_grads |-> (m.grad = 0)]]

evaluation_step_pose(batch, m) ==
    LET m1 == [m EXCEPT !.training = FALSE]                \* model.eval()
        out == Forward(m1, batch.grids)                    \* under no_grad()
        ok == DOMAIN batch = {"grids", "labels", "descent"}
              /\ DOMAIN out = {"pose_log"}
    IN  [raised |-> ~ok,
         model |-> m1,
         output |-> IF ok
                    THEN [pose_log |-> out.pose_log, labels |-> batch.labels]
                    ELSE [pose_log |-> 0, labels |-> 0],
         ctx |-> [by |-> "eval", training |-> m1.training, grad |-> FALSE,
                  zero_grads |-> (m1.grad = 0)]]

\* The process function _setup_evaluator gives the evaluator Engine.
setup_evaluator(affinity) ==
    IF affinity
    THEN "_evaluation_step_pose_and_affinity"
    ELSE "_evaluation_step_pose"

\* evaluator._process_function(evaluator, batch)
EvaluatorProcess(fn, batch, m) ==
    IF fn = "_evaluation_step_pose_and_affinity"
    THEN evaluation_step_pose_and_affinity(batch, m)
    ELSE evaluation_step_pose(batch, m)

(***************************************************************************)
(* Metrics.  A Loss metric keeps a running sum and count: reset when the   *)
(* evaluator fires EPOCH_STARTED, updated on every ITERATION_COMPLETED,    *)
(* and computed into evaluator.state.metrics on EPOCH_COMPLETED.           *)
(***************************************************************************)
\* metrics.setup_metrics: the names attached to the evaluator.
setup_metrics(affinity) ==
    IF affinity THEN {"Loss (pose)", "Loss (affinity)"} ELSE {"Loss (pose)"}

\* Mutant of MetricStarted: the accumulator is not reset.
MetricStarted_NoReset(acc) == acc

\* Metric.started
MetricStarted(acc) == [acc EXCEPT !.sum = 0, !.n = 0]

\* What the metric's output_transform selects and its loss function returns.
MetricValue(name, output) ==
    IF name = "Loss (pose)"
    THEN pose_loss(output.pose_log, output.labels)
    ELSE AffinityLoss(output.affinities_pred, output.affinities)

\* Metric.iteration_completed
MetricUpdate(name, acc, output) ==
    [acc EXCEPT !.sum = @ + MetricValue(name, output), !.n = @ + 1]

\* Metric.completed: the mean loss over the pass.
MetricCompute(acc) == acc.sum \div acc.n

\* metric.attach(evaluator, name): the handlers of each metric, per event.
AttachedMetricsOn(event, accs, output) ==
    [name \in DOMAIN accs |->
        IF event = "EPOCH_STARTED" THEN MetricStarted(accs[name])
        ELSE IF event = "ITERATION_COMPLETED"
             THEN MetricUpdate(name, accs[name], output)
             ELSE accs[name]]

\* A fresh State() of an Engine whose previous run is done.
FreshEvaluatorState(ev, data) ==
    [ev EXCEPT !.epoch = 0, !.iteration = 0, !.metrics = [k \in {} |-> 0],
               !.output = [k \in {} |-> 0], !.data = data]

(***************************************************************************)
(* timing.Timer: `total` is the time accumulated up to the last pause,     *)
(* `since` the time that has passed since the timer was last set running.  *)
(* Time is counted in units of work: one training step, one evaluation     *)
(* step or one checkpoint save lets one unit pass.                         *)
(***************************************************************************)
\* Timer.reset (Timer() itself ends with a reset).
TimerReset(t) == [running |-> TRUE, total |-> 0, since |-> 0]

\* Mutant of TimerPaused: the timer is left running.
TimerPaused_StillRunning(t) == t

\* Timer.pause
TimerPaused(t) ==
    IF t.running
    THEN [t EXCEPT !.total = @ + t.since, !.running = FALSE]
    ELSE t

\* Timer.resume
TimerResumed(t) ==
    IF ~t.running THEN [t EXCEPT !.running = TRUE, !.since = 0] ELSE t

\* One unit of time passes on the clock the timer reads.
TimePasses(t) == IF t.running THEN [t EXCEPT !.since = @ + 1] ELSE t

(***************************************************************************)
(* Event filter and history records.                                       *)
(***************************************************************************)
\* Events.EPOCH_COMPLETED(every=n): fires when the epoch count is a multiple.
EveryFilter(every, epoch) == epoch % every = 0

\* defaultdict(list): d[key].append(value)
DictAppend(d, key, value) ==
    [k \in DOMAIN d \cup {key} |->
        IF k = key
        THEN Append(IF key \in DOMAIN d THEN d[key] ELSE <<>>, value)
        ELSE d[k]]

RECURSIVE AppendAll(_, _, _)
\* for key, value in mts.items(): d[key].append(value)
AppendAll(d, mts, keys) ==
    IF keys = {} THEN d
    ELSE LET k == CHOOSE x \in keys : TRUE
         IN  AppendAll(DictAppend(d, k, mts[k]), mts, keys \ {k})

\* Mutant of RowEpoch: the row is keyed by the evaluator's own epoch counter.
RowEpoch_EvaluatorEpoch(tr, ev) == ev.epoch

\* The epoch number a history row is keyed by.
RowEpoch(tr, ev) == tr.epoch

\* metrics_X["Epoch"].append(trainer.state.epoch), then every metric.
AppendRow(d, tr, ev) ==
    AppendAll(DictAppend(d, "Epoch", RowEpoch(tr, ev)), ev.metrics,
              DOMAIN ev.metrics)

(***************************************************************************)
(* optim.lr_scheduler.ReduceLROnPlateau as training() constructs it:       *)
(* threshold 1e-4 in relative mode, no cooldown, eps 1e-8.                 *)
(***************************************************************************)
\* mode="max" of the constructor call.
SchedulerMode == "max"

\* The relative threshold 1e-4 as the fraction 1 / ThresholdDen.
ThresholdDen == 10000

\* eps: a rate changes only when it moves by more than 1e-8, which is less
\* than one unit of the model's rates.
PlateauEps == 0

\* The scheduler after construction: best is the worst value of the mode.
NewScheduler(mode, a) ==
    [mode |-> mode, factor |-> a.lr_reduce, patience |-> a.lr_patience,
     min_lr |-> a.lr_min, best |-> [inf |-> TRUE, value |-> 0],
     num_bad_epochs |-> 0, last_epoch |-> 0]

\* ReduceLROnPlateau.is_better(a, best)
is_better(sch, a) ==
    \/ sch.best.inf
    \/ /\ sch.mode = "max"
       /\ a * ThresholdDen > sch.best.value * (ThresholdDen + 1)
    \/ /\ sch.mode = "min"
       /\ a * ThresholdDen < sch.best.value * (ThresholdDen - 1)

\* Mutant of reduce_lr: the new rate is assigned without the eps test.
reduce_lr_NoEps(sch, o) ==
    [o EXCEPT !.lr = Max((o.lr * sch.factor.num) \div sch.factor.den,
                         sch.min_lr)]

\* ReduceLROnPlateau._reduce_lr on the single parameter group.
reduce_lr(sch, o) ==
    LET old_lr == o.lr
        new_lr == Max((old_lr * sch.factor.num) \div sch.factor.den, sch.min_lr)
    IN  IF old_lr - new_lr > PlateauEps THEN [o EXCEPT !.lr = new_lr] ELSE o

\* torch_scheduler.step(loss)
scheduler_step(sch, o, current) ==
    LET better == is_better(sch, current)
        s0 == [sch EXCEPT !.last_epoch = @ + 1]
        s1 == IF better
              THEN [s0 EXCEPT !.best = [inf |-> FALSE, value |-> current],
                              !.num_bad_epochs = 0]
              ELSE [s0 EXCEPT !.num_bad_epochs = @ + 1]
    IN  IF s1.num_bad_epochs > s1.patience
        THEN [scheduler |-> [s1 EXCEPT !.num_bad_epochs = 0],
              optimizer |-> reduce_lr(s1, o)]
        ELSE [scheduler |-> s1, optimizer |-> o]

\* Mutant of MonitoredLoss: the KeyError of a missing affinity loss is not
\* caught.
MonitoredLoss_NoExcept(mts) ==
    LET has == "Loss (affinity)" \in DOMAIN mts
    IN  [loss |-> mts["Loss (pose)"]
                  + (IF has THEN mts["Loss (affinity)"] ELSE 0),
         raised |-> ~has,
         mts |-> mts]

\* loss = mts["Loss (pose)"]; try: loss += mts["Loss (affinity)"]; except
\* KeyError: pass.  The values are floats: += rebinds the local and leaves
\* the objects held by mts (and by the row appended before) as they are.
\* Returns the local, whether an exception escapes, and mts afterwards.
MonitoredLoss(mts) ==
    LET has == "Loss (affinity)" \in DOMAIN mts
    IN  [loss |-> mts["Loss (pose)"]
                  + (IF has THEN mts["Loss (affinity)"] ELSE 0),
         raised |-> FALSE,
         mts |-> mts]

(***************************************************************************)
(* ignite Checkpoint(to_save, out_dir, n_saved, global_step_transform).    *)
(***************************************************************************)
\* Mutant of RequireEmptyViolated: the directory is never checked.
RequireEmptyViolated_Unchecked(dir) == FALSE

\* DiskSaver(out_dir, require_empty=True): checkpoint files already there.
RequireEmptyViolated(dir) == \E f \in dir : f.ext = "pt"

\* Mutant of global_step_transform: the tag is the iteration count.
global_step_transform_Iteration(tr) == tr.iteration

\* global_step_transform=lambda *_: trainer.state.epoch
global_step_transform(tr) == tr.epoch

\* self._saved.append(item); self._saved.sort(key=priority)
SavedInsert(saved, item) ==
    SelectSeq(saved, LAMBDA it : it.priority <= item.priority)
    \o <<item>>
    \o SelectSeq(saved, LAMBDA it : it.priority > item.priority)

\* Mutant of CheckpointCall: the newest kept item is evicted, not the oldest.
CheckpointCall_EvictsNewest(ck, dir, n_saved, tr) ==
    LET priority == global_step_transform(tr)
        file == CheckpointFile(priority, "this")
        room == Len(ck.saved) < n_saved
        newest == ck.saved[Len(ck.saved)]
    IN  IF ~(room \/ ck.saved[1].priority < priority)
        THEN [checkpoint |-> ck, out_dir |-> dir]
        ELSE LET kept == IF room THEN ck.saved
                         ELSE SubSeq(ck.saved, 1, Len(ck.saved) - 1)
                 dir1 == IF room THEN dir ELSE dir \ {newest.file}
             IN  [checkpoint |->
                     [ck EXCEPT !.saved =
                         SavedInsert(kept, [priority |-> priority,
                                            file |-> file])],
                  out_dir |-> dir1 \cup {file}]

\* Checkpoint.__call__: evict the lowest priority once n_saved are kept,
\* then save.  Returns the handler's list and the directory.
CheckpointCall(ck, dir, n_saved, tr) ==
    LET priority == global_step_transform(tr)
        file == CheckpointFile(priority, "this")
        room == Len(ck.saved) < n_saved
    IN  IF ~(room \/ ck.saved[1].priority < priority)
        THEN [checkpoint |-> ck, out_dir |-> dir]
        ELSE IF \E i \in 1..Len(ck.saved) : ck.saved[i].file = file
        THEN [checkpoint |-> ck, out_dir |-> dir]
        ELSE LET kept == IF room THEN ck.saved ELSE Tail(ck.saved)
                 dir1 == IF room THEN dir ELSE dir \ {ck.saved[1].file}
             IN  [checkpoint |->
                     [ck EXCEPT !.saved =
                         SavedInsert(kept, [priority |-> priority,
                                            file |-> file])],
                  out_dir |-> dir1 \cup {file}]

(***************************************************************************)
(* Initial states: the entry of training(args).  The objects carry the     *)
(* values their constructors give them; Setup installs what depends on     *)
(* args.                                                                   *)
(***************************************************************************)
TrainDims == "dims"

\* A local variable that no assignment has bound yet.
Unbound == [bound |-> FALSE, value |-> 0]

NoRecord == [k \in {} |-> 0]

\* The entry of training(args) with an optimizer of `groups` groups.
InitGiven(groups) ==
    /\ args \in ArgsSet
    \* The rate options matter only with --lr_dynamic; the base rate is
    \* either above the floor lr_min or below it.
    /\ <<args.base_lr, args.lr_min>> \in {<<4, 1>>, <<1, 2>>}
    /\ (~args.lr_dynamic =>
          args.lr_patience = 0 /\ args.base_lr = 4)
    /\ out_dir \in {{}, {CheckpointFile(1, "prior")}}
    /\ train_loader \in TrainLoaders(args.affinity_pos)
    /\ test_loader \in
          IF args.testfile
          THEN {[dims |-> d, batches |-> TestBatches(args.affinity_pos)] :
                    d \in {TrainDims, "other"}}
          ELSE {[dims |-> TrainDims, batches |-> <<>>]}
    /\ pc = "setup"
    /\ raised = "None"
    /\ model = [params |-> InitWeights, grad |-> 0, training |-> TRUE,
                affinity |-> FALSE]
    /\ optimizer \in {[lr |-> 0, param_groups |-> g, steps |-> 0] :
                         g \in groups}
    /\ affinity_loss = "None"
    /\ trainer = [epoch |-> 0, iteration |-> 0, max_epochs |-> 0, output |-> 0,
                  process_function |-> "None", event |-> "NONE"]
    /\ evaluator = [epoch |-> 0, iteration |-> 0, metrics |-> NoRecord,
                    output |-> NoRecord, data |-> "None",
                    process_function |-> "None", event |-> "NONE"]
    /\ allmetrics = NoRecord
    /\ torch_scheduler = NewScheduler("None", args)
    /\ elapsed_time = [running |-> FALSE, total |-> 0, since |-> 0]
    /\ checkpoint = [saved |-> <<>>]
    /\ handlers = <<>>
    /\ hpos = 0
    /\ hpc = "entry"
    /\ metrics_train = NoRecord
    /\ metrics_test = NoRecord
    /\ forward_ctx = [by |-> "none", training |-> FALSE, grad |-> FALSE,
                      zero_grads |-> TRUE]
    /\ monitored = Unbound

\* optim.SGD(model.parameters(), ...) has one parameter group.
Init == InitGiven({1})

(***************************************************************************)
(* training(), lines 529-735: everything before trainer.run.               *)
(***************************************************************************)
\* Mutant of RegisteredHandlers: the checkpoint handler is registered first.
RegisteredHandlers_CheckpointFirst(a) ==
    <<[name |-> "checkpoint", every |-> a.checkpoint_every],
      [name |-> "elapsed_time", every |-> 1],
      [name |-> "log_training_results", every |-> a.test_every]>>
    \o (IF a.testfile
        THEN <<[name |-> "log_test_results", every |-> a.test_every]>>
        ELSE <<>>)

\* Mutant of RegisteredHandlers: log_test_results is registered before
\* log_training_results.
RegisteredHandlers_TestFirst(a) ==
    <<[name |-> "elapsed_time", every |-> 1]>>
    \o (IF a.testfile
        THEN <<[name |-> "log_test_results", every |-> a.test_every]>>
        ELSE <<>>)
    \o <<[name |-> "log_training_results", every |-> a.test_every],
         [name |-> "checkpoint", every |-> a.checkpoint_every]>>

\* Mutant of RegisteredHandlers: log_test_results is put on the checkpoint
\* cadence.
RegisteredHandlers_TestCadence(a) ==
    <<[name |-> "elapsed_time", every |-> 1],
      [name |-> "log_training_results", every |-> a.test_every]>>
    \o (IF a.testfile
        THEN <<[name |-> "log_test_results", every |-> a.checkpoint_every]>>
        ELSE <<>>)
    \o <<[name |-> "checkpoint", every |-> a.checkpoint_every]>>

\* The handlers training() registers on EPOCH_COMPLETED, in program order:
\* the timer's pause and step, log_training_results, log_test_results when a
\* test file is given, and the checkpoint handler.
RegisteredHandlers(a) ==
    <<[name |-> "elapsed_time", every |-> 1],
      [name |-> "log_training_results", every |-> a.test_every]>>
    \o (IF a.testfile
        THEN <<[name |-> "log_test_results", every |-> a.test_every]>>
        ELSE <<>>)
    \o <<[name |-> "checkpoint", every |-> a.checkpoint_every]>>

Setup ==
    /\ pc = "setup"
    /\ IF args.testfile /\ test_loader.dims # TrainDims
       THEN \* assert test_loader.dims == train_loader.dims
            /\ pc' = "failed"
            /\ raised' = "AssertionError: dims"
            /\ out_dir' = out_dir \cup {[ext |-> "log"]}
            /\ UNCHANGED <<model, optimizer, affinity_loss, trainer, evaluator,
                           allmetrics, torch_scheduler, handlers,
                           elapsed_time>>
       ELSE LET affinity == args.affinity_pos
                aff_loss == IF affinity THEN "AffinityLoss" ELSE "None"
            IN  /\ out_dir' = out_dir \cup {[ext |-> "log"]}
                /\ model' = [model EXCEPT !.affinity = affinity]
                /\ optimizer' = [optimizer EXCEPT !.lr = args.base_lr]
                /\ affinity_loss' = aff_loss
                /\ trainer' = [trainer EXCEPT
                                  !.process_function = setup_trainer(aff_loss)]
                /\ allmetrics' = [name \in setup_metrics(affinity) |->
                                     [sum |-> 0, n |-> 0]]
                /\ evaluator' = [evaluator EXCEPT
                                  !.process_function = setup_evaluator(affinity)]
                /\ torch_scheduler' =
                      IF args.lr_dynamic
                      THEN NewScheduler(SchedulerMode, args)
                      ELSE torch_scheduler
                /\ elapsed_time' = TimerReset(elapsed_time)
                /\ IF RequireEmptyViolated(out_dir)
                   THEN \* Checkpoint(...) raises: the directory is not empty
                        /\ pc' = "failed"
                        /\ raised' = "ValueError: checkpoints present"
                        /\ handlers' =
                              SubSeq(RegisteredHandlers(args), 1,
                                     Len(RegisteredHandlers(args)) - 1)
                   ELSE /\ pc' = "running"
                        /\ raised' = raised
                        /\ handlers' = RegisteredHandlers(args)
    /\ UNCHANGED <<monitored, args, train_loader, test_loader, checkpoint,
                   hpos, hpc, metrics_train, metrics_test, forward_ctx>>

(***************************************************************************)
(* trainer.run(train_loader, max_epochs=args.iterations), line 737.        *)
(***************************************************************************)
\* Mutant of BatchesDone: the count runs one ahead, so a batch is skipped.
BatchesDone_SkipsBatch ==
    trainer.iteration - (trainer.epoch - 1) * Len(train_loader) + 1

\* The batches of the current epoch already processed.
BatchesDone == trainer.iteration - (trainer.epoch - 1) * Len(train_loader)

HandlersDone == hpos > Len(handlers)

\* Engine.run: the state is reset and STARTED fires (the timer resets).
TrainerStarted ==
    /\ pc = "running"
    /\ trainer.event = "NONE"
    /\ trainer' = [trainer EXCEPT !.epoch = 0, !.iteration = 0,
                                  !.max_epochs = args.iterations,
                                  !.event = "STARTED"]
    /\ elapsed_time' = TimerReset(elapsed_time)
    /\ UNCHANGED <<monitored, args, raised, out_dir, train_loader, test_loader, pc, model,
                   optimizer, affinity_loss, evaluator, allmetrics,
                   torch_scheduler, checkpoint, handlers, hpos, hpc,
                   metrics_train, metrics_test, forward_ctx>>

\* The next epoch begins: EPOCH_STARTED fires (the timer resumes).
EpochStarted ==
    /\ pc = "running"
    /\ IF trainer.event = "STARTED" THEN TRUE
       ELSE trainer.event = "EPOCH_COMPLETED" /\ HandlersDone
    /\ trainer.epoch < trainer.max_epochs
    /\ trainer' = [trainer EXCEPT !.epoch = @ + 1, !.event = "EPOCH_STARTED"]
    /\ elapsed_time' = TimerResumed(elapsed_time)
    /\ hpos' = 0
    /\ UNCHANGED <<monitored, args, raised, out_dir, train_loader, test_loader, pc, model,
                   optimizer, affinity_loss, evaluator, allmetrics,
                   torch_scheduler, checkpoint, handlers, hpc, metrics_train,
                   metrics_test, forward_ctx>>

\* One iteration: the process function runs on the next batch.
TrainStep ==
    /\ pc = "running"
    /\ trainer.event \in {"EPOCH_STARTED", "ITERATION_COMPLETED"}
    /\ BatchesDone < Len(train_loader)
    /\ LET batch == train_loader[BatchesDone + 1]
           r == TrainerProcess(trainer.process_function, batch, model,
                               optimizer, args.clip_gradients)
       IN  /\ model' = r.model
           /\ optimizer' = r.optimizer
           /\ forward_ctx' = r.ctx
           /\ elapsed_time' = TimePasses(elapsed_time)
           /\ IF r.raised
              THEN /\ pc' = "failed"
                   /\ raised' = "ValueError: unpack"
                   /\ trainer' = trainer
              ELSE /\ pc' = pc
                   /\ raised' = raised
                   /\ trainer' = [trainer EXCEPT !.iteration = @ + 1,
                                                 !.output = r.output,
                                                 !.event = "ITERATION_COMPLETED"]
    /\ UNCHANGED <<monitored, args, out_dir, train_loader, test_loader,
                   affinity_loss, evaluator, allmetrics, torch_scheduler,
                   checkpoint, handlers, hpos, hpc, metrics_train,
                   metrics_test>>

\* An exception raised inside the step (by the loader, the forward or the
\* backward call) is not caught: trainer.run re-raises it.
TrainStepRaises ==
    /\ pc = "running"
    /\ trainer.event \in {"EPOCH_STARTED", "ITERATION_COMPLETED"}
    /\ BatchesDone < Len(train_loader)
    /\ pc' = "failed"
    /\ raised' = "RuntimeError: step"
    /\ UNCHANGED <<monitored, args, out_dir, train_loader, test_loader, model, optimizer,
                   affinity_loss, trainer, evaluator, allmetrics,
                   torch_scheduler, elapsed_time, checkpoint, handlers, hpos,
                   hpc, metrics_train, metrics_test, forward_ctx>>

\* The loader is exhausted: EPOCH_COMPLETED fires, handlers run in order.
EpochCompleted ==
    /\ pc = "running"
    /\ trainer.event \in {"EPOCH_STARTED", "ITERATION_COMPLETED"}
    /\ BatchesDone = Len(train_loader)
    /\ trainer' = [trainer EXCEPT !.event = "EPOCH_COMPLETED"]
    /\ hpos' = 1
    /\ hpc' = "entry"
    /\ UNCHANGED <<monitored, args, raised, out_dir, train_loader, test_loader, pc, model,
                   optimizer, affinity_loss, evaluator, allmetrics,
                   torch_scheduler, elapsed_time, checkpoint, handlers,
                   metrics_train, metrics_test, forward_ctx>>

\* The handler at hpos is due: EPOCH_COMPLETED is being handled.
HandlerDue(name) ==
    /\ pc = "running"
    /\ trainer.event = "EPOCH_COMPLETED"
    /\ hpos \in 1..Len(handlers)
    /\ handlers[hpos].name = name

\* A handler registered with every=n is skipped on the other epochs.
HandlerFiltered ==
    /\ pc = "running"
    /\ trainer.event = "EPOCH_COMPLETED"
    /\ hpos \in 1..Len(handlers)
    /\ hpc = "entry"
    /\ ~EveryFilter(handlers[hpos].every, trainer.epoch)
    /\ hpos' = hpos + 1
    /\ UNCHANGED <<monitored, args, raised, out_dir, train_loader, test_loader, pc, model,
                   optimizer, affinity_loss, trainer, evaluator, allmetrics,
                   torch_scheduler, elapsed_time, checkpoint, handlers, hpc,
                   metrics_train, metrics_test, forward_ctx>>

\* elapsed_time's pause and step handlers.
TimerPause ==
    /\ HandlerDue("elapsed_time")
    /\ EveryFilter(handlers[hpos].every, trainer.epoch)
    /\ elapsed_time' = TimerPaused(elapsed_time)
    /\ hpos' = hpos + 1
    /\ UNCHANGED <<monitored, args, raised, out_dir, train_loader, test_loader, pc, model,
                   optimizer, affinity_loss, trainer, evaluator, allmetrics,
                   torch_scheduler, checkpoint, handlers, hpc, metrics_train,
                   metrics_test, forward_ctx>>

(***************************************************************************)
(* evaluator.run(loader) inside log_training_results / log_test_results.   *)
(***************************************************************************)
\* The loader the handler at hpos passes to evaluator.run.
HandlerData == IF handlers[hpos].name = "log_test_results"
               THEN "test" ELSE "train"

EvalBatches == IF evaluator.data = "test"
               THEN test_loader.batches ELSE train_loader

\* Engine.run: a new state, STARTED, then EPOCH_STARTED (metrics reset).
EvaluatorRun ==
    /\ pc = "running"
    /\ trainer.event = "EPOCH_COMPLETED"
    /\ hpos \in 1..Len(handlers)
    /\ handlers[hpos].name \in {"log_training_results", "log_test_results"}
    /\ hpc = "entry"
    /\ EveryFilter(handlers[hpos].every, trainer.epoch)
    /\ evaluator' = [FreshEvaluatorState(evaluator, HandlerData) EXCEPT
                        !.epoch = 1, !.event = "EPOCH_STARTED"]
    /\ allmetrics' = AttachedMetricsOn("EPOCH_STARTED", allmetrics, NoRecord)
    /\ hpc' = "evaluating"
    /\ UNCHANGED <<monitored, args, raised, out_dir, train_loader, test_loader, pc, model,
                   optimizer, affinity_loss, trainer, torch_scheduler,
                   elapsed_time, checkpoint, handlers, hpos, metrics_train,
                   metrics_test, forward_ctx>>

\* One evaluation iteration: the step's record goes to every metric.
EvaluationStep ==
    /\ pc = "running"
    /\ hpc = "evaluating"
    /\ evaluator.iteration < Len(EvalBatches)
    /\ LET batch == EvalBatches[evaluator.iteration + 1]
           r == EvaluatorProcess(evaluator.process_function, batch, model)
       IN  /\ model' = r.model
           /\ forward_ctx' = r.ctx
           /\ elapsed_time' = TimePasses(elapsed_time)
           /\ IF r.raised
              THEN /\ pc' = "failed"
                   /\ raised' = "ValueError: unpack"
                   /\ UNCHANGED <<evaluator, allmetrics>>
              ELSE /\ pc' = pc
                   /\ raised' = raised
                   /\ evaluator' = [evaluator EXCEPT
                                       !.iteration = @ + 1,
                                       !.output = r.output,
                                       !.event = "ITERATION_COMPLETED"]
                   /\ allmetrics' = AttachedMetricsOn("ITERATION_COMPLETED",
                                                      allmetrics, r.output)
    /\ UNCHANGED <<monitored, args, out_dir, train_loader, test_loader,
                   optimizer, affinity_loss, trainer, torch_scheduler,
                   checkpoint, handlers, hpos, hpc, metrics_train,
                   metrics_test>>

\* The pass ends: every metric writes its value into state.metrics.
EvaluatorCompleted ==
    /\ pc = "running"
    /\ hpc = "evaluating"
    /\ evaluator.iteration = Len(EvalBatches)
    /\ evaluator' = [evaluator EXCEPT
                        !.metrics = [name \in DOMAIN allmetrics |->
                                        MetricCompute(allmetrics[name])],
                        !.event = "COMPLETED"]
    /\ hpc' = "evaluated"
    /\ UNCHANGED <<monitored, args, raised, out_dir, train_loader, test_loader, pc, model,
                   optimizer, affinity_loss, trainer, allmetrics,
                   torch_scheduler, elapsed_time, checkpoint, handlers, hpos,
                   metrics_train, metrics_test, forward_ctx>>

(***************************************************************************)
(* The handlers of training().                                             *)
(***************************************************************************)
\* log_training_results after evaluator.run: the row, then the rate update.
log_training_results ==
    /\ HandlerDue("log_training_results")
    /\ hpc = "evaluated"
    /\ IF args.lr_dynamic
       THEN LET ml == MonitoredLoss(evaluator.metrics)
                r == scheduler_step(torch_scheduler, optimizer, ml.loss)
            IN  \* the row holds the objects of mts, the mapping is mts
                /\ metrics_train' =
                      AppendRow(metrics_train, trainer,
                                [evaluator EXCEPT !.metrics = ml.mts])
                /\ evaluator' = [evaluator EXCEPT !.metrics = ml.mts]
                /\ IF ml.raised
                   THEN /\ pc' = "failed"
                        /\ raised' = "KeyError: Loss (affinity)"
                        /\ UNCHANGED <<torch_scheduler, optimizer, monitored>>
                   ELSE /\ monitored' = [bound |-> TRUE, value |-> ml.loss]
                        /\ torch_scheduler' = r.scheduler
                        /\ optimizer' = r.optimizer
                        /\ IF optimizer.param_groups = 1
                           THEN UNCHANGED <<pc, raised>>
                           ELSE /\ pc' = "failed"
                                /\ raised' = "AssertionError: param_groups"
       ELSE /\ metrics_train' = AppendRow(metrics_train, trainer, evaluator)
            /\ UNCHANGED <<torch_scheduler, optimizer, pc, raised, evaluator,
                           monitored>>
    /\ hpos' = hpos + 1
    /\ hpc' = "entry"
    /\ UNCHANGED <<args, out_dir, train_loader, test_loader, model,
                   affinity_loss, trainer, allmetrics,
                   elapsed_time, checkpoint, handlers, metrics_test,
                   forward_ctx>>

\* log_test_results after evaluator.run: the row of the test history.
log_test_results ==
    /\ HandlerDue("log_test_results")
    /\ hpc = "evaluated"
    /\ metrics_test' = AppendRow(metrics_test, trainer, evaluator)
    /\ hpos' = hpos + 1
    /\ hpc' = "entry"
    /\ UNCHANGED <<monitored, args, raised, out_dir, train_loader, test_loader, pc, model,
                   optimizer, affinity_loss, trainer, evaluator, allmetrics,
                   torch_scheduler, elapsed_time, checkpoint, handlers,
                   metrics_train, forward_ctx>>

\* The Checkpoint handler on its cadence.
CheckpointHandler ==
    /\ HandlerDue("checkpoint")
    /\ EveryFilter(handlers[hpos].every, trainer.epoch)
    /\ LET r == CheckpointCall(checkpoint, out_dir, args.num_checkpoints,
                               trainer)
       IN  /\ checkpoint' = r.checkpoint
           /\ out_dir' = r.out_dir
    /\ elapsed_time' = TimePasses(elapsed_time)
    /\ hpos' = hpos + 1
    /\ UNCHANGED <<monitored, args, raised, train_loader, test_loader, pc,
                   model, optimizer, affinity_loss, trainer, evaluator,
                   allmetrics, torch_scheduler, handlers, hpc,
                   metrics_train, metrics_test, forward_ctx>>

\* The last epoch is handled: COMPLETED fires and trainer.run returns.
Completed ==
    /\ pc = "running"
    /\ trainer.event = "EPOCH_COMPLETED"
    /\ HandlersDone
    /\ trainer.epoch >= trainer.max_epochs
    /\ trainer' = [trainer EXCEPT !.event = "COMPLETED"]
    /\ pc' = "write_results"
    /\ UNCHANGED <<monitored, args, raised, out_dir, train_loader, test_loader, model, optimizer,
                   affinity_loss, evaluator, allmetrics, torch_scheduler,
                   elapsed_time, checkpoint, handlers, hpos, hpc,
                   metrics_train, metrics_test, forward_ctx>>

\* Mutant of WriteResults: the tables are also written when the run has
\* failed (as from a finally clause around trainer.run).
WriteResults_OnFailure ==
    /\ pc \in {"write_results", "failed"}
    /\ [ext |-> "csv", name |-> "metrics_train"] \notin out_dir
    /\ out_dir' = out_dir \cup {[ext |-> "csv", name |-> "metrics_train"]}
                   \cup (IF args.testfile
                         THEN {[ext |-> "csv", name |-> "metrics_test"]}
                         ELSE {})
    /\ pc' = (IF pc = "failed" THEN "failed" ELSE "done")
    /\ UNCHANGED <<monitored, args, raised, train_loader, test_loader, model,
                   optimizer, affinity_loss, trainer, evaluator, allmetrics,
                   torch_scheduler, elapsed_time, checkpoint, handlers, hpos,
                   hpc, metrics_train, metrics_test, forward_ctx>>

\* Lines 739-753: the result tables are written, the log file is closed.
WriteResults ==
    /\ pc = "write_results"
    /\ out_dir' = out_dir \cup {[ext |-> "csv", name |-> "metrics_train"]}
                   \cup (IF args.testfile
                         THEN {[ext |-> "csv", name |-> "metrics_test"]}
                         ELSE {})
    /\ pc' = "done"
    /\ UNCHANGED <<monitored, args, raised, train_loader, test_loader, model, optimizer,
                   affinity_loss, trainer, evaluator, allmetrics,
                   torch_scheduler, elapsed_time, checkpoint, handlers, hpos,
                   hpc, metrics_train, metrics_test, forward_ctx>>

Next ==
    \/ Setup
    \/ TrainerStarted
    \/ EpochStarted
    \/ TrainStep
    \/ TrainStepRaises
    \/ EpochCompleted
    \/ HandlerFiltered
    \/ TimerPause
    \/ EvaluatorRun
    \/ EvaluationStep
    \/ EvaluatorCompleted
    \/ log_training_results
    \/ log_test_results
    \/ CheckpointHandler
    \/ Completed
    \/ WriteResults

Spec == Init /\ [][Next]_vars

\* training() is one sequential control flow: a step that is possible is
\* eventually taken.  The runs without --lr_dynamic: the rate controller
\* takes no part in the trainer's phases.
FairInit == Init /\ ~args.lr_dynamic

FairSpec == FairInit /\ [][Next]_vars /\ WF_vars(Next)

\* log_training_results against an optimizer of up to MaxGroups parameter
\* groups, in adaptive-rate mode: what its assertion is there for.  The
\* field lr is the rate of the first group; the plateau controller changes
\* the rates of all groups alike.
GroupsInit == InitGiven(1..MaxGroups) /\ args.lr_dynamic

GroupsSpec == GroupsInit /\ [][Next]_vars

(***************************************************************************)
(* Derived notions used by the properties.                                 *)
(***************************************************************************)
\* Position of the handler `name` in the registration order (0: absent).
HandlerIndex(name) ==
    IF \E i \in 1..Len(handlers) : handlers[i].name = name
    THEN CHOOSE i \in 1..Len(handlers) : handlers[i].name = name
    ELSE 0

\* The handler `name` has finished for the epoch trainer.epoch.
HandledThisEpoch(name) ==
    /\ trainer.event \in {"EPOCH_COMPLETED", "COMPLETED"}
    /\ HandlerIndex(name) > 0
    /\ hpos > HandlerIndex(name)

\* The completed epochs on which a handler of cadence `every` has run so far.
HitsDone(name, every) ==
    {e \in 1..trainer.epoch :
        /\ e % every = 0
        /\ (e < trainer.epoch \/ HandledThisEpoch(name))}

\* The increasing sequence of the elements of a finite set of integers.
RECURSIVE SortedSeq(_)
SortedSeq(S) ==
    IF S = {} THEN <<>>
    ELSE LET m == CHOOSE x \in S : \A y \in S : x <= y
         IN  <<m>> \o SortedSeq(S \ {m})

Column(d, key) == IF key \in DOMAIN d THEN d[key] ELSE <<>>

(***************************************************************************)
(* C1. A run of the trainer starts with epoch = 0 and iteration = 0 and    *)
(* moves through its phases only in the order STARTED, then per epoch      *)
(* EPOCH_STARTED, one iteration per batch, EPOCH_COMPLETED, and finally    *)
(* COMPLETED; every run ends, either COMPLETED with epoch = args.iterations*)
(* or with a fatal error, and it ends in no other way.                     *)
(***************************************************************************)
C1_Step ==
    trainer' # trainer =>
        \/ /\ trainer'.event = trainer.event   \* Setup installs the step
           /\ trainer'.epoch = trainer.epoch
           /\ trainer'.iteration = trainer.iteration
        \/ /\ trainer.event = "NONE" /\ trainer'.event = "STARTED"
           /\ trainer'.epoch = 0 /\ trainer'.iteration = 0
        \/ /\ trainer.event \in {"STARTED", "EPOCH_COMPLETED"}
           /\ trainer'.event = "EPOCH_STARTED"
           /\ trainer'.epoch = trainer.epoch + 1
           /\ trainer'.epoch <= args.iterations
           /\ trainer'.iteration = trainer.iteration
        \/ /\ trainer.event \in {"EPOCH_STARTED", "ITERATION_COMPLETED"}
           /\ trainer'.event = "ITERATION_COMPLETED"
           /\ trainer'.epoch = trainer.epoch
           /\ trainer'.iteration = trainer.iteration + 1
           /\ trainer'.iteration <= trainer.epoch * Len(train_loader)
        \/ /\ trainer.event = "ITERATION_COMPLETED"
           /\ trainer'.event = "EPOCH_COMPLETED"
           /\ trainer'.epoch = trainer.epoch
           /\ trainer'.iteration = trainer.epoch * Len(train_loader)
        \/ /\ trainer.event = "EPOCH_COMPLETED"
           /\ trainer'.event = "COMPLETED"
           /\ trainer'.epoch = args.iterations
           /\ trainer'.iteration = trainer.iteration

C1_Terminal ==
    (~ENABLED Next) =>
        \/ pc = "failed"
        \/ /\ pc = "done"
           /\ trainer.event = "COMPLETED"
           /\ trainer.epoch = args.iterations

C1_Ends ==
    \/ pc = "failed"
    \/ trainer.event = "COMPLETED" /\ trainer.epoch = args.iterations

C1_PhaseOrder == [][C1_Step]_vars /\ []C1_Terminal /\ <>C1_Ends

C1_Witness ==
    /\ pc = "done"
    /\ trainer.event = "COMPLETED"
    /\ trainer.epoch = args.iterations
    /\ trainer.epoch > 1
    /\ trainer.iteration = trainer.epoch * Len(train_loader)

(***************************************************************************)
(* C2. log_training_results fires exactly on the completed epochs that are *)
(* multiples of args.test_every: in every state the Epoch column of the    *)
(* train history lists, in increasing order, the multiples of test_every   *)
(* handled so far, each being the trainer's epoch at that hit; after a     *)
(* completed run it has floor(iterations / test_every) rows.               *)
(***************************************************************************)
C2_TrainHistoryEpochs ==
    /\ Column(metrics_train, "Epoch")
         = SortedSeq(HitsDone("log_training_results", args.test_every))
    /\ pc \in {"write_results", "done"} =>
         Column(metrics_train, "Epoch")
           = [i \in 1..(args.iterations \div args.test_every) |->
                  i * args.test_every]

C2_Witness ==
    /\ pc = "done"
    /\ args.test_every > 1
    /\ args.iterations % args.test_every # 0
    /\ Len(Column(metrics_train, "Epoch")) >= 1

(***************************************************************************)
(* C3. Checkpoint retention: in every state at most args.num_checkpoints   *)
(* checkpoint artifacts are in the output directory, and once the          *)
(* checkpoint handler has run on more cadence hits than that, exactly      *)
(* num_checkpoints artifacts remain: those of the latest hits.             *)
(***************************************************************************)
CheckpointFiles == {f \in out_dir : f.ext = "pt"}

CheckpointHits == HitsDone("checkpoint", args.checkpoint_every)

\* The k largest elements of a set of integers.
Largest(S, k) == {x \in S : Cardinality({y \in S : y > x}) < k}

C3_Retention ==
    /\ Cardinality(CheckpointFiles) <= args.num_checkpoints
    /\ Cardinality(CheckpointHits) > args.num_checkpoints =>
         /\ Cardinality(CheckpointFiles) = args.num_checkpoints
         /\ {f.epoch : f \in CheckpointFiles}
              = Largest(CheckpointHits, args.num_checkpoints)

C3_Witness ==
    /\ Cardinality(CheckpointHits) > args.num_checkpoints
    /\ args.num_checkpoints > 1
    /\ Cardinality(CheckpointFiles) = args.num_checkpoints

(***************************************************************************)
(* C4. A run started against an output directory that already holds a      *)
(* checkpoint artifact fails before the trainer runs: no event of the      *)
(* trainer fires, no training step and no optimizer update happens.        *)
(***************************************************************************)
StaleCheckpoint == \E f \in out_dir : f.ext = "pt" /\ f.run = "prior"

C4_StaleCheckpointFails ==
    StaleCheckpoint =>
        /\ pc \in {"setup", "failed"}
        /\ trainer.event = "NONE"
        /\ trainer.epoch = 0
        /\ trainer.iteration = 0
        /\ optimizer.steps = 0
        /\ model.params = InitWeights
        /\ forward_ctx.by = "none"

C4_Witness ==
    /\ StaleCheckpoint
    /\ pc = "failed"
    /\ trainer.process_function # "None"

(***************************************************************************)
(* The monitored loss of each cadence check so far, read off the train     *)
(* history: pose loss plus affinity loss when that column exists.          *)
(***************************************************************************)
MonitoredHistory ==
    [i \in 1..Len(Column(metrics_train, "Loss (pose)")) |->
        metrics_train["Loss (pose)"][i]
        + (IF "Loss (affinity)" \in DOMAIN metrics_train
           THEN metrics_train["Loss (affinity)"][i] ELSE 0)]

\* The rate a lower-is-better plateau controller leaves after the checks in
\* `losses`: a check improves when its loss is below the best so far; after
\* more than `patience` consecutive checks without improvement the rate
\* becomes rate * factor clamped at min_lr, and the count starts again.
RECURSIVE ClaimedRate(_, _, _, _, _)
ClaimedRate(losses, best, bad, rate, a) ==
    IF losses = <<>> THEN rate
    ELSE LET current == Head(losses)
             better == best.inf \/ current < best.value
             best1 == IF better THEN [inf |-> FALSE, value |-> current]
                      ELSE best
             bad1 == IF better THEN 0 ELSE bad + 1
             reduce == bad1 > a.lr_patience
             rate1 == IF reduce
                      THEN Max((rate * a.lr_reduce.num) \div a.lr_reduce.den,
                               a.lr_min)
                      ELSE rate
         IN  ClaimedRate(Tail(losses), best1, IF reduce THEN 0 ELSE bad1,
                         rate1, a)

(***************************************************************************)
(* C5. In adaptive-rate mode the learning rate follows the monitored loss: *)
(* after more than lr_patience consecutive non-improving checks it is the  *)
(* previous rate times lr_reduce clamped at lr_min, and at the floor it    *)
(* stays.  Stated as: the optimizer's rate is, after every check, the rate *)
(* the lower-is-better controller leaves on the losses checked so far.     *)
(***************************************************************************)
C5_RateFollowsLoss ==
    (args.lr_dynamic /\ pc # "setup" /\ trainer.process_function # "None") =>
        optimizer.lr = ClaimedRate(MonitoredHistory,
                                   [inf |-> TRUE, value |-> 0], 0,
                                   args.base_lr, args)

(***************************************************************************)
(* C6. The controller's improvement test matches lower-is-better: while    *)
(* the monitored loss has been strictly decreasing from check to check the *)
(* learning rate has never been reduced, and when the last lr_patience + 1 *)
(* checks all failed to go below the best loss before them the rate has    *)
(* been reduced.                                                           *)
(***************************************************************************)
StrictlyDecreasing(h) == \A i \in 1..(Len(h) - 1) : h[i + 1] < h[i]

\* The last n entries of h all fail to go below the least entry before them.
StalledFor(h, n) ==
    /\ Len(h) > n
    /\ \A i \in (Len(h) - n + 1)..Len(h) :
          \A j \in 1..(Len(h) - n) : h[i] >= h[j]

C6_ImprovementIsLowerLoss ==
    (args.lr_dynamic /\ pc # "setup" /\ trainer.process_function # "None") =>
        /\ StrictlyDecreasing(MonitoredHistory) => optimizer.lr = args.base_lr
        /\ (StalledFor(MonitoredHistory, args.lr_patience + 1)
            /\ args.base_lr > args.lr_min) =>
              optimizer.lr < args.base_lr

(***************************************************************************)
(* C7. The evaluator's metrics are reset at the start of every pass: the   *)
(* metrics a finished pass holds are the mean losses of that pass's        *)
(* dataset under the current parameters, whatever pass ran before, and the *)
(* row just appended to the test history holds the values of the held-out  *)
(* pass alone (and the train row those of the training-set pass alone).    *)
(***************************************************************************)
\* The mean of metric `name` over `batches` for a model with weights m,
\* computed from scratch.
PassMetric(name, batches, m) ==
    SumSeq([i \in 1..Len(batches) |->
               MetricValue(name,
                   EvaluatorProcess(evaluator.process_function, batches[i],
                                    m).output)])
    \div Len(batches)

\* The handler `name` has just appended its row for this epoch.
JustAppended(name) ==
    /\ pc = "running"
    /\ trainer.event = "EPOCH_COMPLETED"
    /\ HandlerIndex(name) > 0
    /\ hpos = HandlerIndex(name) + 1
    /\ hpc = "entry"
    /\ EveryFilter(handlers[HandlerIndex(name)].every, trainer.epoch)

C7_MetricsResetEachPass ==
    /\ (pc = "running" /\ hpc = "evaluated") =>
          /\ DOMAIN evaluator.metrics = DOMAIN allmetrics
          /\ \A name \in DOMAIN evaluator.metrics :
                evaluator.metrics[name] = PassMetric(name, EvalBatches, model)
    /\ JustAppended("log_test_results") =>
          \A name \in DOMAIN allmetrics :
             Last(metrics_test[name])
               = PassMetric(name, test_loader.batches, model)
    /\ JustAppended("log_training_results") =>
          \A name \in DOMAIN allmetrics :
             Last(metrics_train[name]) = PassMetric(name, train_loader, model)

C7_Witness ==
    /\ JustAppended("log_test_results")
    /\ Len(metrics_test["Loss (pose)"]) > 1
    /\ Last(metrics_test["Loss (pose)"]) # Last(metrics_train["Loss (pose)"])

(***************************************************************************)
(* C8. Only a training step writes the model parameters, the gradient and  *)
(* the optimizer's update state; while the evaluator runs a pass the       *)
(* parameters and the whole optimizer are unchanged, and every evaluation  *)
(* step calls the model in inference mode with gradient tracking off.      *)
(***************************************************************************)
C8_Step ==
    /\ (model'.params # model.params \/ model'.grad # model.grad
        \/ optimizer'.steps # optimizer.steps) =>
          /\ trainer'.iteration = trainer.iteration + 1
          /\ trainer'.event = "ITERATION_COMPLETED"
          /\ forward_ctx'.by = "train"
    /\ (pc = "running" /\ evaluator' # evaluator) =>
          /\ model'.params = model.params
          /\ model'.grad = model.grad
          /\ optimizer' = optimizer
    /\ evaluator'.iteration = evaluator.iteration + 1 =>
          /\ forward_ctx'.by = "eval"
          /\ ~forward_ctx'.grad
          /\ ~forward_ctx'.training
          /\ ~model'.training

C8_EvaluationLeavesModel == [][C8_Step]_vars

C8_Witness ==
    /\ evaluator.event = "COMPLETED"
    /\ evaluator.data = "test"
    /\ optimizer.steps > Len(train_loader)
    /\ model.params # InitWeights
    /\ forward_ctx.by = "eval"

(***************************************************************************)
(* C9. Every record an evaluation step produces holds pose_log and labels, *)
(* and holds affinities_pred and affinities exactly in dual-task mode.     *)
(***************************************************************************)
C9_StepOutputFields ==
    evaluator.event \in {"ITERATION_COMPLETED", "COMPLETED"} =>
        DOMAIN evaluator.output
          = {"pose_log", "labels"}
            \cup (IF args.affinity_pos
                  THEN {"affinities_pred", "affinities"} ELSE {})

C9_Witness ==
    /\ evaluator.event = "ITERATION_COMPLETED"
    /\ evaluator.iteration = Len(EvalBatches)
    /\ evaluator.data = "test"
    /\ args.affinity_pos
    /\ "affinities" \in DOMAIN evaluator.output

WrittenCheckpoints == {f \in CheckpointFiles : f.run = "this"}

C11_Step ==
    (\E f \in out_dir' \ out_dir : f.ext = "pt") =>
        /\ trainer.event = "EPOCH_COMPLETED"
        /\ trainer.epoch % args.checkpoint_every = 0
        /\ trainer' = trainer
        /\ {f \in out_dir' \ out_dir : f.ext = "pt"}
             = {CheckpointFile(trainer.epoch, "this")}

C11_State ==
    /\ {f.epoch : f \in WrittenCheckpoints}
         = Largest(CheckpointHits, args.num_checkpoints)
    /\ (pc \in {"write_results", "done"}
        /\ args.iterations < args.checkpoint_every) =>
          CheckpointFiles = {}

C11_CheckpointCadence == [][C11_Step]_vars /\ []C11_State

C11_Witness ==
    /\ pc = "done"
    /\ args.checkpoint_every = 2
    /\ args.test_every = 1
    /\ args.iterations = 3
    /\ WrittenCheckpoints = {CheckpointFile(2, "this")}

(***************************************************************************)
(* C12. With a test file, every hit of the evaluation cadence appends      *)
(* exactly one row to the test history, keyed by the trainer's epoch of    *)
(* that hit: outside the hit itself the Epoch columns of the two histories *)
(* are equal.  Without a test file the evaluator never runs on the test    *)
(* loader, the test history stays empty and no metrics_test file is        *)
(* written.                                                                *)
(***************************************************************************)
\* The train row of the current hit is appended, the test row not yet.
BetweenRows ==
    /\ trainer.event = "EPOCH_COMPLETED"
    /\ EveryFilter(args.test_every, trainer.epoch)
    /\ HandlerIndex("log_test_results") > 0
    /\ hpos = HandlerIndex("log_test_results")

TestResultFile == [ext |-> "csv", name |-> "metrics_test"]

C12_TestHistory ==
    /\ args.testfile =>
          /\ Column(metrics_test, "Epoch")
               = SortedSeq(HitsDone("log_test_results", args.test_every))
          /\ \A k \in DOMAIN metrics_test :
                Len(metrics_test[k]) = Len(Column(metrics_test, "Epoch"))
          /\ ~BetweenRows =>
                Column(metrics_test, "Epoch") = Column(metrics_train, "Epoch")
          /\ pc = "done" => TestResultFile \in out_dir
    /\ ~args.testfile =>
          /\ metrics_test = NoRecord
          /\ evaluator.data # "test"
          /\ TestResultFile \notin out_dir

C12_Witness ==
    /\ args.testfile
    /\ pc = "done"
    /\ Len(Column(metrics_test, "Epoch")) > 1
    /\ Column(metrics_test, "Epoch") = Column(metrics_train, "Epoch")
    /\ TestResultFile \in out_dir

(***************************************************************************)
(* C13. In adaptive-rate mode the quantity log_training_results hands to   *)
(* the plateau controller is the pose loss of the training-set pass plus   *)
(* its affinity loss when that metric exists, and the pose loss alone when *)
(* it does not; a missing affinity loss never fails the run; and forming   *)
(* the quantity leaves the evaluator's metrics and the row just appended   *)
(* to the train history as the pass computed them.                         *)
(***************************************************************************)
C13_MonitoredLoss ==
    /\ raised # "KeyError: Loss (affinity)"
    /\ ~args.lr_dynamic => ~monitored.bound
    /\ (args.lr_dynamic /\ JustAppended("log_training_results")) =>
          /\ monitored.bound
          /\ monitored.value
               = PassMetric("Loss (pose)", train_loader, model)
                 + (IF "Loss (affinity)" \in DOMAIN allmetrics
                    THEN PassMetric("Loss (affinity)", train_loader, model)
                    ELSE 0)
          /\ torch_scheduler.last_epoch
               = Len(Column(metrics_train, "Epoch"))
          /\ torch_scheduler.last_epoch = 1 =>
                torch_scheduler.best = [inf |-> FALSE,
                                        value |-> monitored.value]
          /\ evaluator.metrics
               = [name \in DOMAIN allmetrics |->
                     PassMetric(name, train_loader, model)]
          /\ \A name \in DOMAIN allmetrics :
                Last(metrics_train[name])
                  = PassMetric(name, train_loader, model)

C13_Witness ==
    /\ args.lr_dynamic
    /\ ~args.affinity_pos
    /\ JustAppended("log_training_results")
    /\ "Loss (affinity)" \notin DOMAIN evaluator.metrics
    /\ monitored.bound
    /\ monitored.value > 0
    /\ torch_scheduler.last_epoch > 1

(***************************************************************************)
(* C14. The EPOCH_COMPLETED handlers run one after the other in the order  *)
(* of their registration, and the trainer leaves EPOCH_COMPLETED only when *)
(* the last one has finished: the timer pause, then the training-set       *)
(* evaluation with its learning-rate update, then the held-out evaluation, *)
(* then the checkpoint save.  Each effect happens only while its own       *)
(* handler is the one being run, and on an epoch where both cadences hit   *)
(* each handler's effect is there as soon as the handlers after it run.    *)
(***************************************************************************)
\* The name of the handler being run ("none" outside EPOCH_COMPLETED).
Running ==
    IF trainer.event = "EPOCH_COMPLETED" /\ hpos \in 1..Len(handlers)
    THEN handlers[hpos].name
    ELSE "none"

C14_Order ==
    pc = "running" =>
        /\ HandlerIndex("elapsed_time") = 1
        /\ HandlerIndex("log_training_results") = 2
        /\ HandlerIndex("log_test_results") = (IF args.testfile THEN 3 ELSE 0)
        /\ HandlerIndex("checkpoint") = Len(handlers)
        /\ Len(handlers) = (IF args.testfile THEN 4 ELSE 3)

C14_Step ==
    /\ C14_Order
    /\ hpos' # hpos =>
          \/ hpos' = hpos + 1 /\ hpos >= 1 /\ hpc' = "entry"
                /\ trainer' = trainer
          \/ hpos' = 1 /\ trainer.event # "EPOCH_COMPLETED"
                /\ trainer'.event = "EPOCH_COMPLETED"
          \/ hpos' = 0 /\ trainer'.event = "EPOCH_STARTED"
    /\ (trainer.event = "EPOCH_COMPLETED"
        /\ trainer'.event # "EPOCH_COMPLETED") =>
          /\ hpos > Len(handlers)
          /\ hpc = "entry"
          /\ trainer'.event \in {"EPOCH_STARTED", "COMPLETED"}
    /\ (elapsed_time.running /\ ~elapsed_time'.running) =>
          Running = "elapsed_time"
    /\ (pc = "running" /\ evaluator' # evaluator) =>
          /\ Running \in {"log_training_results", "log_test_results"}
          /\ evaluator'.data
               = (IF Running = "log_test_results" THEN "test" ELSE "train")
    /\ (metrics_train' # metrics_train
        \/ (pc = "running" /\ torch_scheduler' # torch_scheduler)
        \/ (pc = "running" /\ optimizer'.lr # optimizer.lr)) =>
          Running = "log_training_results"
    /\ metrics_test' # metrics_test => Running = "log_test_results"
    /\ (checkpoint' # checkpoint \/ (pc = "running" /\ out_dir' # out_dir)) =>
          Running = "checkpoint"

\* Both cadences hit on the epoch being handled.
BothHit ==
    /\ pc = "running"
    /\ trainer.event = "EPOCH_COMPLETED"
    /\ EveryFilter(args.test_every, trainer.epoch)
    /\ EveryFilter(args.checkpoint_every, trainer.epoch)

C14_State ==
    BothHit =>
        /\ hpos > 1 => ~elapsed_time.running
        /\ hpos > 2 <=>
             /\ Column(metrics_train, "Epoch") # <<>>
             /\ Last(Column(metrics_train, "Epoch")) = trainer.epoch
        /\ (hpos > 2 /\ args.lr_dynamic) =>
             torch_scheduler.last_epoch = Len(Column(metrics_train, "Epoch"))
        /\ args.testfile =>
             (hpos > 3 <=>
                /\ Column(metrics_test, "Epoch") # <<>>
                /\ Last(Column(metrics_test, "Epoch")) = trainer.epoch)
        /\ hpos > Len(handlers) <=>
             CheckpointFile(trainer.epoch, "this") \in out_dir

C14_HandlerOrder == [][C14_Step]_vars /\ []C14_State

C14_Witness ==
    /\ BothHit
    /\ args.testfile
    /\ args.lr_dynamic
    /\ args.test_every = 2
    /\ args.checkpoint_every = 2
    /\ args.iterations > 2
    /\ hpos > Len(handlers)
    /\ CheckpointFile(trainer.epoch, "this") \in out_dir
    /\ Last(Column(metrics_test, "Epoch")) = trainer.epoch

C16_UpdateAfterHeldOut ==
    (args.lr_dynamic /\ args.testfile) =>
        torch_scheduler.last_epoch <= Len(Column(metrics_test, "Epoch"))

(***************************************************************************)
(* C16, amended.  On a hit of the evaluation cadence the steps are:        *)
(* (1) training-set evaluation and train-history append, (2) in            *)
(* adaptive-rate mode the learning-rate update, (3) with a test file the   *)
(* held-out evaluation and test-history append.  The plateau controller is *)
(* stepped inside log_training_results, after the training-set pass has    *)
(* completed and before the held-out evaluation of the same hit starts.    *)
(***************************************************************************)
C16_Step ==
    /\ metrics_train' # metrics_train =>
          /\ evaluator.event = "COMPLETED"
          /\ evaluator.data = "train"
          /\ Last(Column(metrics_train', "Epoch")) = trainer.epoch
    /\ torch_scheduler'.last_epoch # torch_scheduler.last_epoch =>
          /\ args.lr_dynamic
          /\ Running = "log_training_results"
          /\ evaluator.event = "COMPLETED"
          /\ evaluator.data = "train"
          /\ torch_scheduler'.last_epoch
               = Len(Column(metrics_train', "Epoch"))
          /\ args.testfile =>
                Len(Column(metrics_test, "Epoch"))
                  = torch_scheduler.last_epoch
    /\ (evaluator'.data = "test" /\ evaluator' # evaluator
        /\ args.lr_dynamic) =>
          torch_scheduler.last_epoch = Len(Column(metrics_train, "Epoch"))
    /\ metrics_test' # metrics_test =>
          /\ evaluator.event = "COMPLETED"
          /\ evaluator.data = "test"
          /\ Column(metrics_test', "Epoch") = Column(metrics_train, "Epoch")
          /\ args.lr_dynamic =>
                torch_scheduler.last_epoch
                  = Len(Column(metrics_test', "Epoch"))

C16_UpdateBeforeHeldOut == [][C16_Step]_vars

C16_Witness ==
    /\ args.lr_dynamic
    /\ args.testfile
    /\ JustAppended("log_test_results")
    /\ Len(Column(metrics_test, "Epoch")) > 1
    /\ torch_scheduler.last_epoch = Len(Column(metrics_test, "Epoch"))

(***************************************************************************)
(* C17. In both task modes one training step zeroes the gradients, calls   *)
(* the model, computes the loss, backpropagates, clips the gradient norm   *)
(* and applies the optimizer update, in this order and once per batch:     *)
(* the forward call sees zeroed gradients and the parameters of before the *)
(* update, the loss returned is the one of that call, the gradient left is *)
(* the clipped gradient of this batch alone, the parameters move by        *)
(* exactly that clipped gradient, and the optimizer has been stepped once  *)
(* per iteration.                                                          *)
(***************************************************************************)
\* The loss of one batch for parameters `params`, computed apart from the
\* step functions.
BatchLoss(batch, params) ==
    pose_loss(params + batch.grids, batch.labels)
    + (IF args.affinity_pos
       THEN AffinityLoss(params + batch.grids, batch.affinities)
       ELSE 0)

\* The gradient of one batch, scaled to the clip threshold.
Clipped(batch) ==
    IF batch.descent > args.clip_gradients THEN args.clip_gradients
    ELSE IF batch.descent < -args.clip_gradients THEN -args.clip_gradients
    ELSE batch.descent

C17_Step ==
    trainer'.iteration = trainer.iteration + 1 =>
        LET batch == train_loader[BatchesDone + 1]
        IN  /\ forward_ctx'.by = "train"
            /\ forward_ctx'.zero_grads
            /\ trainer'.output = BatchLoss(batch, model.params)
            /\ model'.grad = Clipped(batch)
            /\ model'.params = model.params + Clipped(batch)
            /\ optimizer'.steps = optimizer.steps + 1
            /\ optimizer'.steps = trainer'.iteration

C17_State ==
    /\ pc # "failed" => optimizer.steps = trainer.iteration
    /\ model.grad <= args.clip_gradients
    /\ model.grad >= -args.clip_gradients

C17_StepOrder == [][C17_Step]_vars /\ []C17_State

C17_Witness ==
    /\ forward_ctx.by = "train"
    /\ args.affinity_pos
    /\ model.grad = args.clip_gradients
    /\ train_loader[1].descent > args.clip_gradients
    /\ model.params = InitWeights + 2 * args.clip_gradients
    /\ optimizer.steps = Len(train_loader) + 1

(***************************************************************************)
(* C18 as stated: the elapsed-time accumulator is running only between an  *)
(* EPOCH_STARTED and the following EPOCH_COMPLETED, and it is paused       *)
(* whenever the evaluator or the checkpoint handler executes.              *)
(***************************************************************************)
\* An evaluator pass or a checkpoint save is being executed.
InHandlerWork ==
    /\ trainer.event = "EPOCH_COMPLETED"
    /\ \/ hpc \in {"evaluating", "evaluated"}
       \/ Running = "checkpoint"

C18_TimerOnlyInEpochs ==
    /\ elapsed_time.running =>
          trainer.event \in {"EPOCH_STARTED", "ITERATION_COMPLETED",
                             "EPOCH_COMPLETED"}
    /\ InHandlerWork => ~elapsed_time.running

(***************************************************************************)
(* C18, amended.  The accumulator runs from its construction, and from the *)
(* reset at STARTED, until the first EPOCH_COMPLETED, and afterwards only  *)
(* between an EPOCH_STARTED and the following EPOCH_COMPLETED; before the  *)
(* first EPOCH_STARTED it has accumulated nothing.  Whenever the evaluator *)
(* or the checkpoint handler executes it is paused, so the time it has     *)
(* accumulated, and the total that is logged, is that of the training      *)
(* steps alone.                                                            *)
(***************************************************************************)
\* Timer.value(): the accumulated time, with the running stretch.
TimerValue ==
    elapsed_time.total
    + (IF elapsed_time.running THEN elapsed_time.since ELSE 0)

C18_State ==
    /\ elapsed_time.running =>
          \/ trainer.event \in {"NONE", "STARTED"} /\ TimerValue = 0
          \/ trainer.event \in {"EPOCH_STARTED", "ITERATION_COMPLETED"}
          \/ trainer.event = "EPOCH_COMPLETED" /\ Running = "elapsed_time"
    /\ InHandlerWork => ~elapsed_time.running
    /\ pc # "failed" => TimerValue = trainer.iteration
    /\ JustAppended("log_training_results") =>
          elapsed_time.total = trainer.epoch * Len(train_loader)

C18_Step ==
    (evaluator' # evaluator \/ checkpoint' # checkpoint) =>
        TimerValue' = TimerValue

C18_TimerPausedInHandlers == []C18_State /\ [][C18_Step]_vars

C18_Witness ==
    /\ pc = "running"
    /\ trainer.event = "EPOCH_COMPLETED"
    /\ trainer.epoch > 1
    /\ hpos > Len(handlers)
    /\ args.testfile
    /\ evaluator.data = "test"
    /\ CheckpointFile(trainer.epoch, "this") \in out_dir
    /\ ~elapsed_time.running
    /\ elapsed_time.total = trainer.iteration

(***************************************************************************)
(* C19. Every training step calls the model in training mode and every     *)
(* evaluation step calls it in inference mode, whatever ran before: a      *)
(* pass of the evaluator that leaves the model in inference mode is        *)
(* followed by training steps in training mode.                            *)
(***************************************************************************)
C19_Step ==
    /\ trainer'.iteration = trainer.iteration + 1 =>
          /\ forward_ctx'.by = "train"
          /\ forward_ctx'.training
          /\ model'.training
    /\ (pc = "running" /\ evaluator'.iteration = evaluator.iteration + 1) =>
          /\ forward_ctx'.by = "eval"
          /\ ~forward_ctx'.training
          /\ ~model'.training

C19_State ==
    /\ forward_ctx.by = "train" => forward_ctx.training
    /\ forward_ctx.by = "eval" => ~forward_ctx.training

C19_StepModes == [][C19_Step]_vars /\ []C19_State

\* The evaluator has left the model in inference mode and the first batch
\* of the next epoch has been trained.
C19_Witness ==
    /\ trainer.epoch > 1
    /\ trainer.event = "ITERATION_COMPLETED"
    /\ BatchesDone = 1
    /\ evaluator.event = "COMPLETED"
    /\ forward_ctx.by = "train"
    /\ forward_ctx.training
    /\ model.training

(***************************************************************************)
(* C20. The optimizer's learning rate never increases: it is set to        *)
(* base_lr when the optimizer is built; without adaptive-rate mode it is   *)
(* base_lr in every state; with it, it changes only inside the handler of  *)
(* an evaluation cadence hit and each change strictly lowers it; and with  *)
(* base_lr below lr_min it is never raised to lr_min.                      *)
(***************************************************************************)
C20_Step ==
    optimizer'.lr # optimizer.lr =>
        \/ pc = "setup" /\ optimizer'.lr = args.base_lr
        \/ /\ args.lr_dynamic
           /\ Running = "log_training_results"
           /\ EveryFilter(args.test_every, trainer.epoch)
           /\ optimizer'.lr < optimizer.lr

C20_State ==
    trainer.process_function # "None" =>
        /\ ~args.lr_dynamic => optimizer.lr = args.base_lr
        /\ optimizer.lr <= args.base_lr
        /\ args.base_lr < args.lr_min => optimizer.lr = args.base_lr

C20_RateNeverIncreases == [][C20_Step]_vars /\ []C20_State

C20_Witness ==
    /\ args.lr_dynamic
    /\ pc = "done"
    /\ optimizer.lr < args.base_lr
    /\ optimizer.lr > args.lr_min
    /\ torch_scheduler.last_epoch > 1

(***************************************************************************)
(* C21. The result tables metrics_train.csv and metrics_test.csv are       *)
(* written only after the trainer has reached COMPLETED: a table appears   *)
(* in the output directory only in a step taken after COMPLETED, and a run *)
(* that has failed, at whatever epoch and with whatever rows already in    *)
(* the histories, has written no table.                                    *)
(***************************************************************************)
ResultTables == {f \in out_dir : f.ext = "csv"}

C21_Step ==
    (\E f \in out_dir' \ out_dir : f.ext = "csv") =>
        /\ trainer.event = "COMPLETED"
        /\ trainer.epoch = args.iterations
        /\ raised = "None"
        /\ pc' = "done"

C21_State ==
    /\ ResultTables # {} =>
          /\ pc = "done"
          /\ trainer.event = "COMPLETED"
          /\ raised = "None"
    /\ pc = "failed" => ResultTables = {}
    /\ raised # "None" => pc = "failed"

C21_TablesOnlyAfterCompleted == [][C21_Step]_vars /\ []C21_State

\* The run fails in a later epoch, after cadence hits have appended rows.
C21_Witness ==
    /\ pc = "failed"
    /\ raised = "RuntimeError: step"
    /\ trainer.epoch > 2
    /\ args.testfile
    /\ Len(Column(metrics_train, "Epoch")) > 1
    /\ Len(Column(metrics_test, "Epoch")) > 1
    /\ ResultTables = {}

====
